---- MODULE Spec2Model ----
(***************************************************************************)
(* Model of the audio analyzer: the rule-based genre classifier and the    *)
(* /analyze-audio handler of main.py, and the batch dataset builders of    *)
(* deezer_audio_analyzer.py and spotify_dataset_builder.py.                *)
(*                                                                         *)
(* A float is an IEEE 754 double, and every arithmetic operation rounds    *)
(* to the nearest double, as the interpreter and numpy do.  The arrays     *)
(* that librosa returns are taken as float64 arrays.                       *)
(***************************************************************************)
EXTENDS Integers, Sequences, FiniteSets, TLC

VARIABLES
    c_pc,          \* classifier harness: "input" before / "returned" after the call
    c_features,    \* classifier harness: the FeatureVector passed in
    c_best,        \* classifier harness: the local (best_genre, (passed, total))
    c_prediction,  \* classifier harness: the returned {"genre", "confidence"}
    h_pc,          \* analyze_audio: position in the handler
    h_req,         \* analyze_audio: the AudioAnalyzeRequest flags
    h_tmp,         \* analyze_audio: TRUE while the NamedTemporaryFile exists
    h_calls,       \* analyze_audio: the stages invoked so far, in order
    h_wave,        \* analyze_audio: the decoded waveform y (NoValue before)
    h_features,    \* analyze_audio: the dict of extract_african_features
    h_result,      \* analyze_audio: the response body (NoValue if none)
    h_status,      \* analyze_audio: 0 while running, 200, or the HTTPException code
    h_response,    \* analyze_audio: what requests.get did (NoResponse before)
    b_variant,     \* batch builder: "deezer" or "spotify"
    b_pc,          \* batch builder: position in build_*dataset / extract_features
    b_lists,       \* batch builder: index of the playlist being processed
    b_tracks,      \* batch builder: the tracks of the current result list
    b_i,           \* batch builder: index of the current track in b_tracks
    b_catalog,     \* batch builder: every track the catalog returned so far
    b_dataset,     \* batch builder: the accumulated dataset rows
    b_tmpfiles,    \* batch builder: the temporary files existing on disk
    b_tmp_path,    \* batch builder: the temp file of the current extract_features call
    b_features,    \* batch builder: what the current extract_features call returned
    b_analyzed,    \* batch builder: tracks handed to extract_features so far
    b_file         \* batch builder: whether the CSV was written, and its rows

c_vars == <<c_pc, c_features, c_best, c_prediction>>
h_vars == <<h_pc, h_req, h_tmp, h_calls, h_wave, h_features, h_result, h_status,
           h_response>>
b_vars == <<b_variant, b_pc, b_lists, b_tracks, b_i, b_catalog, b_dataset,
            b_tmpfiles, b_tmp_path, b_features, b_analyzed, b_file>>
vars == <<c_vars, h_vars, b_vars>>

NoValue == [none |-> TRUE]

(***************************************************************************)
(* Floats                                                                  *)
(***************************************************************************)
RECURSIVE Pow10(_)
Pow10(n) == IF n = 0 THEN 1 ELSE 10 * Pow10(n - 1)

RECURSIVE Pow2(_)
Pow2(n) == IF n = 0 THEN 1 ELSE 2 * Pow2(n - 1)

\* |x| of an integer
Abs(x) == IF x < 0 THEN -x ELSE x

\* A natural number of any size is the sequence of its digits in base
\* 2^15, lowest digit first, without leading zeros; 0 is <<>>.
LimbBits == 15
LimbBase == 32768

RECURSIVE BigNorm(_)
BigNorm(a) ==
    IF a # <<>> /\ a[Len(a)] = 0 THEN BigNorm(SubSeq(a, 1, Len(a) - 1)) ELSE a

RECURSIVE BigFromInt(_)
BigFromInt(k) ==
    IF k = 0 THEN <<>> ELSE <<k % LimbBase>> \o BigFromInt(k \div LimbBase)

RECURSIVE BitLen(_)
BitLen(k) == IF k = 0 THEN 0 ELSE 1 + BitLen(k \div 2)

BigBitLen(a) ==
    IF a = <<>> THEN 0 ELSE LimbBits * (Len(a) - 1) + BitLen(a[Len(a)])

RECURSIVE BigCmpFrom(_, _, _)
BigCmpFrom(a, b, i) ==
    IF i = 0 THEN 0
    ELSE IF a[i] < b[i] THEN -1
    ELSE IF a[i] > b[i] THEN 1
    ELSE BigCmpFrom(a, b, i - 1)

\* -1, 0 or 1 as a < b, a = b or a > b
BigCmp(a, b) ==
    IF Len(a) < Len(b) THEN -1
    ELSE IF Len(a) > Len(b) THEN 1
    ELSE BigCmpFrom(a, b, Len(a))

Limb(a, i) == IF i <= Len(a) THEN a[i] ELSE 0

RECURSIVE BigAddFrom(_, _, _, _)
BigAddFrom(a, b, i, carry) ==
    IF i > Len(a) /\ i > Len(b) THEN (IF carry = 0 THEN <<>> ELSE <<carry>>)
    ELSE LET t == Limb(a, i) + Limb(b, i) + carry
         IN  <<t % LimbBase>> \o BigAddFrom(a, b, i + 1, t \div LimbBase)

BigAdd(a, b) == BigAddFrom(a, b, 1, 0)

RECURSIVE BigSubFrom(_, _, _, _)
BigSubFrom(a, b, i, borrow) ==
    IF i > Len(a) THEN <<>>
    ELSE LET t == a[i] - Limb(b, i) - borrow
         IN  <<IF t < 0 THEN t + LimbBase ELSE t>>
                 \o BigSubFrom(a, b, i + 1, IF t < 0 THEN 1 ELSE 0)

\* a - b for a >= b
BigSub(a, b) == BigNorm(BigSubFrom(a, b, 1, 0))

RECURSIVE BigMulSmallFrom(_, _, _, _)
BigMulSmallFrom(a, k, i, carry) ==
    IF i > Len(a) THEN (IF carry = 0 THEN <<>> ELSE <<carry>>)
    ELSE LET t == a[i] * k + carry
         IN  <<t % LimbBase>> \o BigMulSmallFrom(a, k, i + 1, t \div LimbBase)

\* a * k for 0 <= k <= 2^15
BigMulSmall(a, k) == IF k = 0 THEN <<>> ELSE BigMulSmallFrom(a, k, 1, 0)

RECURSIVE BigMulFrom(_, _, _)
BigMulFrom(a, b, i) ==
    IF i > Len(b) THEN <<>>
    ELSE BigAdd([j \in 1..(i - 1) |-> 0] \o BigMulSmall(a, b[i]),
                BigMulFrom(a, b, i + 1))

BigMul(a, b) == BigNorm(BigMulFrom(a, b, 1))

\* a * 2^bits
BigShl(a, bits) ==
    IF a = <<>> THEN <<>>
    ELSE [j \in 1..(bits \div LimbBits) |-> 0]
             \o BigMulSmall(a, Pow2(bits % LimbBits))

RECURSIVE BigDivSmallFrom(_, _, _, _)
BigDivSmallFrom(a, k, i, rem) ==
    IF i = 0 THEN [q |-> <<>>, r |-> rem]
    ELSE LET t    == rem * LimbBase + a[i]
             rest == BigDivSmallFrom(a, k, i - 1, t % k)
         IN  [q |-> rest.q \o <<t \div k>>, r |-> rest.r]

\* floor(a / k) for 0 < k <= 2^15
BigDivSmall(a, k) == BigNorm(BigDivSmallFrom(a, k, Len(a), 0).q)

\* floor(a / 2^bits)
BigShr(a, bits) ==
    IF bits \div LimbBits >= Len(a) THEN <<>>
    ELSE BigDivSmall(SubSeq(a, bits \div LimbBits + 1, Len(a)),
                     Pow2(bits % LimbBits))

\* q or q + 1, for q the floor of a quotient whose remainder compares to
\* one half as c (-1, 0, 1): to nearest, a tie to even unless sticky says
\* that the dividend stands for a slightly greater number
BigRoundUp(q, c, sticky) ==
    IF c > 0 \/ (c = 0 /\ (sticky \/ (q # <<>> /\ q[1] % 2 = 1)))
    THEN BigAdd(q, <<1>>)
    ELSE q

BigShrRoundFrom(a, bits, sticky, q) ==
    BigRoundUp(q, BigCmp(BigSub(a, BigShl(q, bits)), BigShl(<<1>>, bits - 1)),
               sticky)

\* a / 2^bits rounded to the nearest integer, bits > 0
BigShrRound(a, bits, sticky) == BigShrRoundFrom(a, bits, sticky, BigShr(a, bits))

\* the greatest d with b * d <= rem, from the estimate qh >= d
RECURSIVE BigDigitFrom(_, _, _)
BigDigitFrom(rem, b, qh) ==
    IF BigCmp(BigMulSmall(b, qh), rem) <= 0 THEN qh
    ELSE BigDigitFrom(rem, b, qh - 1)

Min(i, j) == IF i < j THEN i ELSE j

\* floor(rem / b) for rem < b * 2^15 and b of full limbs (the top limb of
\* b is at least 2^14): estimated from the top limbs, then corrected
BigDigit(rem, b) ==
    BigDigitFrom(rem, b,
        Min(LimbBase - 1,
            (Limb(rem, Len(b) + 1) * LimbBase + Limb(rem, Len(b))) \div b[Len(b)]))

\* floor(rem * 2^(15 * n) / b) and whether the division left a remainder,
\* one limb of the quotient per step, highest first; q holds the limbs so far
RECURSIVE BigDivLimbs(_, _, _, _)
BigDivNext(r, b, n, q) ==
    IF n = 0 THEN [q |-> BigNorm(q), sticky |-> r # <<>>]
    ELSE BigDivLimbs(IF r = <<>> THEN <<>> ELSE <<0>> \o r, b, n - 1, q)

BigDivStep(rem, b, n, q, d) ==
    BigDivNext(BigSub(rem, BigMulSmall(b, d)), b, n, <<d>> \o q)

BigDivLimbs(rem, b, n, q) == BigDivStep(rem, b, n, q, BigDigit(rem, b))

(***************************************************************************)
(* A float is an IEEE 754 double: [cls, sg, m, e] is sg * m * 2^e when cls *)
(* is "finite", with m a 53-bit number (or 0, then sg = 1 and e = 0), the  *)
(* infinity of sign sg when cls is "inf", and nan.  Every operation gives  *)
(* the double nearest to the exact result, ties to the even significand.   *)
(* Exponents are unbounded: the values of the program stay far from the    *)
(* overflow and subnormal ranges.  The sign of a zero is not kept.         *)
(***************************************************************************)
Precision == 53

Finite(sg, m, e) == [cls |-> "finite", sg |-> sg, m |-> m, e |-> e]

Zero      == Finite(1, <<>>, 0)
Inf(sign) == [cls |-> "inf", sg |-> sign, m |-> <<>>, e |-> 0]
NaN       == [cls |-> "nan", sg |-> 1, m |-> <<>>, e |-> 0]

\* a rounded significand q of 53 or, after a carry, 54 bits
Renormalize(sg, q, e) ==
    IF BigBitLen(q) > Precision THEN Finite(sg, BigShr(q, 1), e + 1)
    ELSE Finite(sg, q, e)

NormalizeBy(sg, m, e, sticky, sh) ==
    IF sh <= 0 THEN Finite(sg, BigShl(m, -sh), e + sh)
    ELSE Renormalize(sg, BigShrRound(m, sh, sticky), e + sh)

\* the double nearest to sg * m * 2^e (slightly more in magnitude if sticky)
Normalize(sg, m, e, sticky) ==
    IF m = <<>> THEN Zero
    ELSE NormalizeBy(sg, m, e, sticky, BigBitLen(m) - Precision)

\* float(k) of an integer, exact below 2^31
R(k) ==
    IF k = 0 THEN Zero
    ELSE Finite(IF k < 0 THEN -1 ELSE 1,
                BigShl(BigFromInt(Abs(k)), Precision - BitLen(Abs(k))),
                BitLen(Abs(k)) - Precision)

IsZero(x) == x.cls = "finite" /\ x.m = <<>>

Sign(x) == IF IsZero(x) \/ x.cls = "nan" THEN 0 ELSE x.sg

Neg(x) == IF Sign(x) = 0 THEN x ELSE [x EXCEPT !.sg = -x.sg]

\* -1, 0 or 1 as |a| < |b|, |a| = |b| or |a| > |b|, both finite
MagCmp(a, b) ==
    IF a.m = <<>> \/ b.m = <<>> THEN BigCmp(a.m, b.m)
    ELSE IF a.e < b.e THEN -1
    ELSE IF a.e > b.e THEN 1
    ELSE BigCmp(a.m, b.m)

\* a < b; every comparison with nan is False
Lt(a, b) ==
    IF a.cls = "nan" \/ b.cls = "nan" THEN FALSE
    ELSE IF a.cls = "inf" THEN a.sg < 0 /\ b # a
    ELSE IF b.cls = "inf" THEN b.sg > 0
    ELSE IF a.sg # b.sg THEN a.sg < b.sg
    ELSE a.sg * MagCmp(a, b) < 0

\* a <= b
Leq(a, b) == a.cls # "nan" /\ b.cls # "nan" /\ ~Lt(b, a)

\* sa * am * 2^e + sb * bm * 2^e
AddAligned(sa, am, sb, bm, e) ==
    Normalize(IF sa = sb \/ BigCmp(am, bm) >= 0 THEN sa ELSE sb,
              IF sa = sb THEN BigAdd(am, bm)
              ELSE IF BigCmp(am, bm) >= 0 THEN BigSub(am, bm)
              ELSE BigSub(bm, am),
              e, FALSE)

\* the sum of two finite floats, neither of them 0; a term below a quarter
\* of the other's last place does not change it
AddFinite(a, b) ==
    IF a.e - b.e > Precision + 2 THEN a
    ELSE IF b.e - a.e > Precision + 2 THEN b
    ELSE AddAligned(a.sg, BigShl(a.m, a.e - Min(a.e, b.e)),
                    b.sg, BigShl(b.m, b.e - Min(a.e, b.e)), Min(a.e, b.e))

\* a + b
Add(a, b) ==
    IF a.cls = "nan" \/ b.cls = "nan" THEN NaN
    ELSE IF a.cls = "inf" THEN (IF b.cls = "inf" /\ b # a THEN NaN ELSE a)
    ELSE IF b.cls = "inf" THEN b
    ELSE IF IsZero(a) THEN b
    ELSE IF IsZero(b) THEN a
    ELSE AddFinite(a, b)

\* a - b
Sub(a, b) == Add(a, Neg(b))

\* a * b
Mul(a, b) ==
    IF a.cls = "nan" \/ b.cls = "nan" THEN NaN
    ELSE IF Sign(a) * Sign(b) = 0 THEN (IF a.cls = "inf" \/ b.cls = "inf" THEN NaN ELSE Zero)
    ELSE IF a.cls = "inf" \/ b.cls = "inf" THEN Inf(a.sg * b.sg)
    ELSE Normalize(a.sg * b.sg, BigMul(a.m, b.m), a.e + b.e, FALSE)

DivResult(sg, qs, e) == Normalize(sg, qs.q, e, qs.sticky)

\* the quotient of two finite floats, neither of them 0: both significands
\* are widened to 60 bits, and 4 limbs are taken after the leading digit
DivFinite(a, b) ==
    DivResult(a.sg * b.sg,
              BigDivLimbs(BigShl(a.m, 4 * LimbBits - Precision),
                          BigShl(b.m, 4 * LimbBits - Precision), 4, <<>>),
              a.e - b.e - 4 * LimbBits)

\* numpy a / b: x/0 is +-inf, 0/0 is nan (a RuntimeWarning, no exception)
Div(a, b) ==
    IF a.cls = "nan" \/ b.cls = "nan" THEN NaN
    ELSE IF b.cls = "inf" THEN (IF a.cls = "inf" THEN NaN ELSE Zero)
    ELSE IF IsZero(b) THEN (IF IsZero(a) THEN NaN ELSE Inf(a.sg))
    ELSE IF a.cls = "inf" THEN Inf(a.sg * b.sg)
    ELSE IF IsZero(a) THEN Zero
    ELSE DivFinite(a, b)

\* the quotients of small integers that occur most, computed once
SmallQuotients == [n \in 0..50, d \in {2, 3, 4, 100, 1000} |-> Div(R(n), R(d))]

\* the float n / d of two integers; a decimal literal is the float nearest
\* to its value, e.g. 0.025 is Q(25, 1000)
Q(n, d) ==
    IF <<n, d>> \in DOMAIN SmallQuotients THEN SmallQuotients[n, d]
    ELSE Div(R(n), R(d))

\* n * 2^e rounded to the nearest integer, ties to even
DecimalOf(n, e) ==
    IF e >= 0 THEN BigShl(n, e)
    ELSE IF -e > BigBitLen(n) + 1 THEN <<>>
    ELSE BigShrRound(n, -e, FALSE)

\* |x| * 10^ndigits rounded to the nearest integer, ties to even
Decimal(x, ndigits) == DecimalOf(BigMulSmall(x.m, Pow10(ndigits)), x.e)

\* the double nearest to sg * a / k, for a the quotient and remainder qr of
\* a * 2^s by k: a remainder makes the quotient slightly greater
RatioResult(sg, qr, s) == Normalize(sg, BigNorm(qr.q), -s, qr.r # 0)

\* the double nearest to sg * a / k for 0 < k <= 2^15, rounded once: a is
\* widened by s bits, so that the quotient holds more bits than a double
RatioOf(sg, a, k, s) == RatioResult(sg, BigDivSmallFrom(a, k, Len(a), 0), s)

\* the double nearest to the decimal sg * p / 10^ndigits (float of the
\* decimal string)
DecimalFloat(sg, p, ndigits) ==
    IF p = <<>> THEN Zero
    ELSE IF BigBitLen(p) >= 5 * LimbBits THEN RatioOf(sg, p, Pow10(ndigits), 0)
    ELSE RatioOf(sg, BigShl(p, 5 * LimbBits - BigBitLen(p)), Pow10(ndigits),
                 5 * LimbBits - BigBitLen(p))

\* Python round(x, ndigits), 0 <= ndigits <= 4: the decimal of ndigits places
\* nearest to the exact value of x, ties to even, and then the double
\* nearest to that decimal (one rounding of the quotient, whatever the
\* size of x); nan and inf are returned unchanged
Round(x, ndigits) ==
    IF x.cls # "finite" THEN x
    ELSE DecimalFloat(x.sg, Decimal(x, ndigits), ndigits)

RECURSIVE SumSeq(_)
SumSeq(s) == IF s = <<>> THEN 0 ELSE Head(s) + SumSeq(Tail(s))

(***************************************************************************)
(* predict_genre_from_features                                             *)
(***************************************************************************)
\* mutation of Get: the default is returned even when the key is present
GetDefaultOnly(d, key, default) == default

\* dict.get(key, default)
Get(d, key, default) == IF key \in DOMAIN d THEN d[key] ELSE default

\* the rules dict literal, in declaration (= iteration) order
Rules(features) ==
    LET tempo    == features["tempo"]
        mfcc_0   == Get(features, "mfcc_0", R(0))
        mfcc_1   == Get(features, "mfcc_1", R(0))
        zcr      == Get(features, "zero_crossing_rate", R(0))
        centroid == Get(features, "spectral_centroid", R(0))
        loudness == Get(features, "loudness_db", R(0))
    IN  << [genre |-> "Afrobeats",
            conds |-> << Leq(R(95), tempo) /\ Leq(tempo, R(125)),
                         Lt(R(120), mfcc_1),
                         Leq(Q(25, 1000), zcr) /\ Leq(zcr, Q(5, 100)),
                         Leq(R(1800), centroid) /\ Leq(centroid, R(3000)) >>],
           [genre |-> "R&B",
            conds |-> << Lt(tempo, R(90)),
                         Lt(mfcc_0, R(-200)),
                         Lt(centroid, R(2000)),
                         Lt(loudness, R(-5)) >>],
           [genre |-> "Hip-Hop",
            conds |-> << Leq(R(80), tempo) /\ Leq(tempo, R(110)),
                         Lt(R(-190), mfcc_0) /\ Lt(mfcc_0, R(-130)),
                         Leq(Q(15, 1000), zcr) /\ Leq(zcr, Q(35, 1000)) >>],
           [genre |-> "Electronic/Pop",
            conds |-> << Lt(R(120), tempo),
                         Lt(R(3500), centroid),
                         Lt(Q(5, 100), zcr) >>],
           [genre |-> "Dancehall/Pop",
            conds |-> << Leq(R(100), tempo) /\ Leq(tempo, R(130)),
                         Lt(R(-6), loudness),
                         Lt(R(2500), centroid) >>] >>

\* sum(conds): the number of True entries
SumConds(conds) == SumSeq([i \in 1..Len(conds) |-> IF conds[i] THEN 1 ELSE 0])

\* scores = {genre: (sum(conds), len(conds))}, kept in dict order
ScoresOf(rules) ==
    [i \in 1..Len(rules) |->
        [genre  |-> rules[i].genre,
         passed |-> SumConds(rules[i].conds),
         total  |-> Len(rules[i].conds)]]

Scores(features) == ScoresOf(Rules(features))

\* key=lambda x: x[1][0]/x[1][1]
KeyGreater(a, b) == Lt(Q(b.passed, b.total), Q(a.passed, a.total))

\* max(iterable, key=...): scans in order, replaces the running maximum only
\* by a strictly greater key, so the first maximal item is returned
RECURSIVE MaxFrom(_, _, _)
MaxFrom(items, i, best) ==
    IF i > Len(items) THEN best
    ELSE MaxFrom(items, i + 1, IF KeyGreater(items[i], best) THEN items[i] ELSE best)

\* the same scan keeping the last maximal item (mutation of MaxByKey)
RECURSIVE MaxFromLast(_, _, _)
MaxFromLast(items, i, best) ==
    IF i > Len(items) THEN best
    ELSE MaxFromLast(items, i + 1, IF KeyGreater(best, items[i]) THEN best ELSE items[i])

MaxByKeyLast(items) == MaxFromLast(items, 2, items[1])

MaxByKey(items) == MaxFrom(items, 2, items[1])

\* mutation of BelowThreshold: the boundary 0.5 counted as below
BelowThresholdInclusive(passed, total) == Leq(Q(passed, total), Q(1, 2))

\* confidence < 0.5, for confidence = passed / total
BelowThreshold(passed, total) == Lt(Q(passed, total), Q(1, 2))

\* mutation of Confidence: rounds to 3 decimal places
Confidence3(passed, total) == Round(Q(passed, total), 3)

\* round(confidence, 2)
Confidence(passed, total) == Round(Q(passed, total), 2)

\* best_genre, (passed, total) = max(scores.items(), key=...)
BestScore(features) == MaxByKey(Scores(features))

\* the two return statements, for the winning item best
Prediction(best) ==
    IF BelowThreshold(best.passed, best.total)
    THEN [genre |-> "Unknown", confidence |-> Zero]
    ELSE [genre |-> best.genre, confidence |-> Confidence(best.passed, best.total)]

predict_genre_from_features(features) == Prediction(BestScore(features))

(***************************************************************************)
(* Classifier harness: one call of predict_genre_from_features on a        *)
(* FeatureVector drawn from values on both sides of the rule thresholds.   *)
(* An optional key is <<>> when absent from the dict and <<v>> when set.   *)
(***************************************************************************)
TempoInputs    == {R(70), R(80), R(90), R(95), R(110), R(120), R(125), R(130), R(140)}
Mfcc0Inputs    == {<<>>, <<R(-250)>>, <<R(-200)>>, <<R(-150)>>, <<R(-100)>>}
Mfcc1Inputs    == {<<>>, <<R(120)>>, <<R(130)>>}
ZcrInputs      == {<<>>, <<Q(1, 100)>>, <<Q(3, 100)>>, <<Q(5, 100)>>, <<Q(6, 100)>>}
CentroidInputs == {<<>>, <<R(1500)>>, <<R(2200)>>, <<R(2800)>>, <<R(3600)>>}
LoudnessInputs == {<<>>, <<R(-10)>>, <<Q(-11, 2)>>, <<R(-4)>>}

OptionalKeys == {"mfcc_0", "mfcc_1", "zero_crossing_rate", "spectral_centroid", "loudness_db"}

\* the dict with "tempo" and every optional key whose option is set
MakeFeatures(tempo, opt) ==
    [k \in {"tempo"} \cup {o \in OptionalKeys : opt[o] # <<>>} |->
        IF k = "tempo" THEN tempo ELSE opt[k][1]]

FeatureInputs ==
    { MakeFeatures(t, [mfcc_0 |-> m0, mfcc_1 |-> m1, zero_crossing_rate |-> z,
                       spectral_centroid |-> c, loudness_db |-> l]) :
        t \in TempoInputs, m0 \in Mfcc0Inputs, m1 \in Mfcc1Inputs,
        z \in ZcrInputs, c \in CentroidInputs, l \in LoudnessInputs }

\* no call of requests.get yet
NoResponse == [raised |-> FALSE, status |-> 0]

HandlerIdle ==
    /\ h_pc = "idle" /\ h_req = NoValue /\ h_tmp = FALSE /\ h_calls = <<>>
    /\ h_wave = NoValue /\ h_features = NoValue /\ h_result = NoValue /\ h_status = 0
    /\ h_response = NoResponse

BatchIdle ==
    /\ b_variant = "none" /\ b_pc = "idle" /\ b_lists = 0 /\ b_tracks = <<>> /\ b_i = 0
    /\ b_catalog = <<>> /\ b_dataset = <<>> /\ b_tmpfiles = {} /\ b_tmp_path = 0
    /\ b_features = NoValue /\ b_analyzed = <<>> /\ b_file = [written |-> FALSE, rows |-> <<>>]

ClassifierIdle ==
    /\ c_pc = "idle" /\ c_features = NoValue /\ c_best = NoValue /\ c_prediction = NoValue

InitClassifier ==
    /\ c_pc = "input"
    /\ c_features \in FeatureInputs
    /\ c_best = NoValue
    /\ c_prediction = NoValue
    /\ HandlerIdle
    /\ BatchIdle

Predict ==
    /\ c_pc = "input"
    /\ c_best' = BestScore(c_features)
    /\ c_prediction' = predict_genre_from_features(c_features)
    /\ c_pc' = "returned"
    /\ UNCHANGED <<c_features, h_vars, b_vars>>

NextClassifier == Predict

SpecClassifier == InitClassifier /\ [][NextClassifier]_vars

(***************************************************************************)
(* extract_african_features.  The librosa results (tempo, chroma, hpss,    *)
(* plp, mfcc, rms, spectral_centroid, zero_crossing_rate) are inputs; what *)
(* the function derives from them is computed here.  Time series are       *)
(* sequences of frames, all of them float64.  An irrational root or        *)
(* logarithm is kept as its expression.                                    *)
(***************************************************************************)
MaxSamples == 2

\* 10^10 as a float
TenTo10 == Mul(R(100000), R(100000))

\* the float literal 1e-10
Eps == Div(R(1), TenTo10)

\* samples -1e-10, 0.0 and 9e-10
SampleValues == {Neg(Eps), Zero, Div(R(9), TenTo10)}

Waveforms == UNION {[1..n -> SampleValues] : n \in 1..MaxSamples}

SampleRates == {22050}

Silent(y) == \A i \in 1..Len(y) : y[i] = Zero

\* np.add.reduce over fewer than 8 floats: added one by one, in order,
\* starting from 0
RECURSIVE SumFloats(_)
SumFloats(s) ==
    IF s = <<>> THEN Zero
    ELSE Add(SumFloats(SubSeq(s, 1, Len(s) - 1)), s[Len(s)])

\* np.mean of a sequence of floats: the sum divided by the count; the mean
\* of an empty slice is 0.0 / 0, nan
Mean(s) == Div(SumFloats(s), R(Len(s)))

\* np.argmax: the first position (0-based) of the greatest entry
ArgMax(s) == (CHOOSE i \in 1..Len(s) :
                 /\ \A j \in 1..Len(s) : Leq(s[j], s[i])
                 /\ \A j \in 1..(i - 1) : Lt(s[j], s[i])) - 1

\* the floats nearest to 10^k, -10 <= k <= 9
PowersOfTen ==
    [k \in -10..9 |-> IF k >= 0 THEN R(Pow10(k))
                      ELSE IF k >= -9 THEN Q(1, Pow10(-k))
                      ELSE Eps]

\* np.log10: -inf at 0, nan below 0, k at the float nearest to 10^k, and
\* the value at any other argument kept as the expression log10(x)
Log10In(x, powers) ==
    IF x.cls = "nan" THEN NaN
    ELSE IF x.cls = "inf" THEN (IF x.sg > 0 THEN x ELSE NaN)
    ELSE IF IsZero(x) THEN Inf(-1)
    ELSE IF x.sg < 0 THEN NaN
    ELSE IF \E k \in DOMAIN powers : powers[k] = x
    THEN R(CHOOSE k \in DOMAIN powers : powers[k] = x)
    ELSE [cls |-> "finite", log10_of |-> x]

Log10(x) == Log10In(x, PowersOfTen)

\* whether a float is held as a number rather than as an expression
Exact(x) == "m" \in DOMAIN x

\* np.sqrt(v) of a float v >= 0: exact at 0 and at the even powers of two,
\* else kept as the expression sqrt(v); nan and inf propagate
SqrtOf(v) ==
    IF v.cls # "finite" \/ IsZero(v) THEN v
    ELSE IF v.m = BigShl(<<1>>, Precision - 1) /\ (v.e + Precision - 1) % 2 = 0
    THEN [v EXCEPT !.e = (v.e + Precision - 1) \div 2 - (Precision - 1)]
    ELSE [cls |-> "finite", sqrt_of |-> v]

\* np.std: the square root of the mean squared deviation from the mean
Square(x) == Mul(x, x)

StdAround(s, m) == SqrtOf(Mean([i \in 1..Len(s) |-> Square(Sub(s[i], m))]))

Std(s) == StdAround(s, Mean(s))

\* pulse[1::2]: the entries at odd 0-based positions
OddEntries(s) == [i \in 1..(Len(s) \div 2) |-> s[2 * i]]

\* np.mean(y_harmonic / (y + 1e-10))
HarmonicRatio(y, y_harmonic) ==
    Mean([i \in 1..Len(y) |-> Div(y_harmonic[i], Add(y[i], Eps))])

\* 10 * np.log10(np.mean(rms) + 1e-10); where the logarithm is kept as an
\* expression, the expression 10 * log10(x)
TenTimes(l) == IF Exact(l) THEN Mul(R(10), l) ELSE [cls |-> "finite", ten_times |-> l]

LoudnessDb(rms) == TenTimes(Log10(Add(Mean(rms), Eps)))

\* np.mean(pulse[1::2]) / (np.mean(pulse) + 1e-10); nan when the odd slice
\* is empty (a pulse of one frame)
OffbeatEmphasis(pulse) == Div(Mean(OddEntries(pulse)), Add(Mean(pulse), Eps))

MfccNames == <<"mfcc_0", "mfcc_1", "mfcc_2", "mfcc_3", "mfcc_4", "mfcc_5", "mfcc_6",
               "mfcc_7", "mfcc_8", "mfcc_9", "mfcc_10", "mfcc_11", "mfcc_12">>

\* mfccs[:5]
FirstRows(rows, n) == SubSeq(rows, 1, IF Len(rows) < n THEN Len(rows) ELSE n)

\* {f"mfcc_{i}": np.mean(coeff) for i, coeff in enumerate(mfccs[:5])}
MfccEntries(mfccs) ==
    LET rows == FirstRows(mfccs, 5)
    IN  [k \in {MfccNames[i] : i \in 1..Len(rows)} |->
            Mean(rows[CHOOSE i \in 1..Len(rows) : MfccNames[i] = k])]

extract_african_features(y, sr, lib) ==
    [tempo               |-> lib.tempo,
     key                 |-> ArgMax([i \in 1..Len(lib.chroma) |-> Mean(lib.chroma[i])]),
     duration            |-> Q(Len(y), sr),
     loudness_db         |-> LoudnessDb(lib.rms),
     percussive_strength |-> Mean([i \in 1..Len(y) |-> Square(lib.y_percussive[i])]),
     polyrhythm_score    |-> Std(lib.pulse),
     offbeat_emphasis    |-> OffbeatEmphasis(lib.pulse),
     harmonic_ratio      |-> HarmonicRatio(y, lib.y_harmonic),
     spectral_centroid   |-> Mean(lib.centroid),
     zero_crossing_rate  |-> Mean(lib.zcr)]
    @@ MfccEntries(lib.mfccs)

(***************************************************************************)
(* What librosa may return for a waveform: four timbres, the last one of a *)
(* single frame, and for hpss either no harmonic part or the whole signal  *)
(* as harmonic part.                                                       *)
(***************************************************************************)
ChromaPeak(k) == [i \in 1..12 |-> IF i = k THEN <<R(1), Q(8, 10)>> ELSE <<Q(1, 10), Q(1, 10)>>]

MfccRows(m0, m1) ==
    [i \in 1..13 |-> IF i = 1 THEN <<R(m0 - 1), R(m0 + 1)>>
                     ELSE IF i = 2 THEN <<R(m1), R(m1)>>
                     ELSE <<R(i), R(-i), Q(i, 4)>>]

Timbres ==
    { [tempo |-> Q(221, 2), chroma |-> ChromaPeak(1), pulse |-> <<R(1), R(0), R(1)>>,
       mfccs |-> MfccRows(-150, 130),
       centroid |-> <<Q(220067, 100), Q(220068, 100)>>, zcr |-> <<Q(275, 10000), Q(326, 10000)>>,
       rms |-> <<Sub(Q(1, 10), Eps)>>],
      [tempo |-> R(70), chroma |-> ChromaPeak(12), pulse |-> <<R(0), R(0)>>,
       mfccs |-> MfccRows(-250, 50),
       centroid |-> <<R(1500)>>, zcr |-> <<Q(100, 10000), Q(109, 10000)>>,
       rms |-> <<Sub(Q(1, 10), Eps)>>],
      [tempo |-> R(140), chroma |-> [i \in 1..12 |-> <<R(0)>>], pulse |-> <<Q(1, 4), Q(3, 4)>>,
       mfccs |-> MfccRows(0, 0),
       centroid |-> <<Q(220000, 100), Q(220003, 100)>>, zcr |-> <<Q(100, 10000), Q(127, 10000)>>,
       rms |-> <<Div(R(9), TenTo10)>>],
      [tempo |-> R(120), chroma |-> [i \in 1..12 |-> <<R(0)>>], pulse |-> <<Q(1, 2)>>,
       mfccs |-> [i \in 1..13 |-> <<Q(-i, 3)>>],
       centroid |-> <<R(0)>>, zcr |-> <<Q(1, 2)>>,
       rms |-> <<Div(R(9), TenTo10)>>] }

HarmonicParts(y) == {[i \in 1..Len(y) |-> Zero], y}

LibraryResults(y) ==
    { [tempo |-> t.tempo, chroma |-> t.chroma, pulse |-> t.pulse, mfccs |-> t.mfccs,
       centroid |-> t.centroid, zcr |-> t.zcr,
       rms |-> IF Silent(y) THEN <<Zero>> ELSE t.rms,
       y_harmonic |-> h,
       y_percussive |-> [i \in 1..Len(y) |-> Sub(y[i], h[i])]] :
        t \in Timbres, h \in HarmonicParts(y) }

(***************************************************************************)
(* analyze_audio                                                           *)
(***************************************************************************)
KEYS == <<"C", "C#", "D", "D#", "E", "F", "F#", "G", "G#", "A", "A#", "B">>

\* Optional[bool] request fields
Flags == {"True", "False", "None"}

\* truth value of an Optional[bool] in an if statement
Truthy(flag) == flag = "True"

\* k.startswith("mfcc_")
StartsWithMfcc(k) == \E i \in 1..Len(MfccNames) : MfccNames[i] = k

\* the mfccs dict comprehension
MfccBreakdown(features) ==
    [k \in {f \in DOMAIN features : StartsWithMfcc(f)} |-> Round(features[k], 4)]

\* the result dict literal
BaseResult(features) ==
    [tempo              |-> Round(features["tempo"], 0),
     duration           |-> Round(features["duration"], 2),
     key                |-> KEYS[features["key"] + 1],
     loudness_db        |-> Round(features["loudness_db"], 2),
     spectral_centroid  |-> Round(features["spectral_centroid"], 2),
     zero_crossing_rate |-> Round(features["zero_crossing_rate"], 4)]

\* mutation of FormatResult: the MFCC breakdown added whatever the flag says
FormatResultAlwaysMfcc(req, features) ==
    BaseResult(features) @@ [mfccs |-> MfccBreakdown(features)]

\* the result dict after the analyze_mfcc block
FormatResult(req, features) ==
    IF Truthy(req.analyze_mfcc)
    THEN BaseResult(features) @@ [mfccs |-> MfccBreakdown(features)]
    ELSE BaseResult(features)

Call(stage, ok) == [stage |-> stage, ok |-> ok]

\* what requests.get does: it raises (no connection, timeout, bad URL), or
\* it returns the final response, with that status code.  Redirects with a
\* Location are followed, so a final 3xx is one that cannot be followed.
StatusCodes == {200, 300, 304, 404, 500}

Replies == {[raised |-> TRUE, status |-> 0]}
               \cup {[raised |-> FALSE, status |-> s] : s \in StatusCodes}

\* Response.raise_for_status raises HTTPError for a 4xx or 5xx status only
RaisesForStatus(status) == 400 <= status /\ status < 600

\* the try block of analyze_audio raises
DownloadRaises(reply) == reply.raised \/ RaisesForStatus(reply.status)

\* response.content is empty for a 304: the temporary file then holds no
\* audio and librosa.load raises
HasBody(reply) == reply.status # 304

\* raise HTTPException(...): the request ends with that status; leaving the
\* with block deletes the temporary file
Raise(status) ==
    /\ h_status' = status
    /\ h_pc' = "raised"
    /\ h_tmp' = FALSE

InitHandler ==
    /\ h_pc = "start"
    /\ h_req \in [analyze_mfcc : Flags, predict_genre : Flags]
    /\ h_tmp = FALSE
    /\ h_calls = <<>>
    /\ h_wave = NoValue
    /\ h_features = NoValue
    /\ h_result = NoValue
    /\ h_status = 0
    /\ h_response = NoResponse
    /\ ClassifierIdle
    /\ BatchIdle

\* requests.get; response.raise_for_status(); audio_data = response.content.
\* requests.get raises on a network failure, and otherwise returns the final
\* response; raise_for_status raises on its status if RaisesForStatus
Download ==
    /\ h_pc = "start"
    /\ \E reply \in Replies :
          /\ h_response' = reply
          /\ h_calls' = Append(h_calls, Call("download", ~DownloadRaises(reply)))
          /\ IF DownloadRaises(reply)
             THEN Raise(400)
             ELSE h_pc' = "downloaded" /\ UNCHANGED <<h_status, h_tmp>>
    /\ UNCHANGED <<h_req, h_wave, h_features, h_result, c_vars, b_vars>>

\* with tempfile.NamedTemporaryFile(...): write, flush
OpenTemp ==
    /\ h_pc = "downloaded"
    /\ h_tmp' = TRUE
    /\ h_pc' = "tmp_written"
    /\ UNCHANGED <<h_req, h_response, h_calls, h_wave, h_features, h_result, h_status, c_vars, b_vars>>

\* librosa.load
Decode ==
    /\ h_pc = "tmp_written"
    /\ \/ \E y \in Waveforms, sr \in SampleRates :
             /\ HasBody(h_response)
             /\ h_calls' = Append(h_calls, Call("decode", TRUE))
             /\ h_wave' = [y |-> y, sr |-> sr]
             /\ h_pc' = "decoded"
             /\ UNCHANGED <<h_status, h_tmp>>
       \/ /\ h_calls' = Append(h_calls, Call("decode", FALSE))
          /\ Raise(500)
          /\ UNCHANGED h_wave
    /\ UNCHANGED <<h_req, h_response, h_features, h_result, c_vars, b_vars>>

\* features = extract_african_features(y, sr)
Extract ==
    /\ h_pc = "decoded"
    /\ \/ \E lib \in LibraryResults(h_wave.y) :
             /\ h_calls' = Append(h_calls, Call("extract", TRUE))
             /\ h_features' = extract_african_features(h_wave.y, h_wave.sr, lib)
             /\ h_pc' = "extracted"
             /\ UNCHANGED <<h_status, h_tmp>>
       \/ /\ h_calls' = Append(h_calls, Call("extract", FALSE))
          /\ Raise(500)
          /\ UNCHANGED h_features
    /\ UNCHANGED <<h_req, h_response, h_wave, h_result, c_vars, b_vars>>

\* result = {...}; if request.analyze_mfcc: ...
Format ==
    /\ h_pc = "extracted"
    /\ h_result' = FormatResult(h_req, h_features)
    /\ h_pc' = "formatted"
    /\ UNCHANGED <<h_req, h_response, h_tmp, h_calls, h_wave, h_features, h_status, c_vars, b_vars>>

\* if request.predict_genre: prediction = predict_genre_from_features(features)
Classify ==
    /\ h_pc = "formatted"
    /\ Truthy(h_req.predict_genre)
    /\ LET prediction == predict_genre_from_features(h_features)
       IN  h_result' = h_result @@ [predicted_genre |-> prediction.genre,
                                    confidence      |-> prediction.confidence]
    /\ h_calls' = Append(h_calls, Call("classify", TRUE))
    /\ h_pc' = "classified"
    /\ UNCHANGED <<h_req, h_response, h_tmp, h_wave, h_features, h_status, c_vars, b_vars>>

\* return result, leaving the with block
Return ==
    /\ \/ h_pc = "classified"
       \/ h_pc = "formatted" /\ ~Truthy(h_req.predict_genre)
    /\ h_status' = 200
    /\ h_tmp' = FALSE
    /\ h_pc' = "returned"
    /\ UNCHANGED <<h_req, h_response, h_calls, h_wave, h_features, h_result, c_vars, b_vars>>

NextHandler ==
    \/ Download
    \/ OpenTemp
    \/ Decode
    \/ Extract
    \/ Format
    \/ Classify
    \/ Return

SpecHandler == InitHandler /\ [][NextHandler]_vars

(***************************************************************************)
(* Batch builders: build_deezer_dataset (deezer_audio_analyzer.py) and     *)
(* build_dataset (spotify_dataset_builder.py).  A track is [id, kind]; the *)
(* kind says what the outside world does for it: it has no preview URL,    *)
(* its download raises, librosa.load raises, a librosa feature call        *)
(* raises, or everything succeeds.  One loop iteration is one action and   *)
(* includes the whole extract_features call.                               *)
(***************************************************************************)
MaxTracks == 2

DeezerKinds  == {"no_preview", "net_fail", "decode_fail", "feature_fail", "ok"}

\* "analysis_fail": librosa.load or a feature call raises inside the inner try
SpotifyKinds == {"no_track", "no_preview", "net_fail", "analysis_fail", "ok"}

\* the track lists a catalog may return for list number l
TrackLists(kinds, l) ==
    UNION { { [i \in 1..n |-> [id |-> <<l, i>>, kind |-> ks[i]]] : ks \in [1..n -> kinds] } :
            n \in 0..MaxTracks }

\* AFRICAN_PLAYLISTS, in dict order
AFRICAN_PLAYLISTS == <<"afrobeats", "amapiano">>

DeezerQuery == "afrobeats"

DeezerFeatures ==
    [tempo |-> R(110), mfcc_mean |-> R(-5), spectral_centroid |-> R(2200),
     spectral_bandwidth |-> R(1800), zero_crossing_rate |-> Q(3, 100)]

SpotifyFeatures ==
    [tempo |-> R(110), key |-> 0, mfcc_mean |-> R(-5), spectral_centroid |-> R(2200),
     spectral_bandwidth |-> R(1800), spectral_rolloff |-> R(4000),
     zero_crossing_rate |-> Q(3, 100)]

\* extract_features of deezer_audio_analyzer.py: what it returns (NoValue for
\* None) and the temporary files left on disk
DeezerExtractFeatures(track, tmp_path, files) ==
    LET created == files \cup {tmp_path}        \* NamedTemporaryFile(delete=False)
        removed == created \ {tmp_path}         \* os.unlink(tmp_path)
    IN  IF track.kind = "net_fail"              \* requests.get raises in the with block
        THEN [ret |-> NoValue, files |-> created]
        ELSE IF track.kind = "decode_fail"      \* librosa.load raises before the unlink
        THEN [ret |-> NoValue, files |-> created]
        ELSE IF track.kind = "feature_fail"     \* a feature call raises after the unlink
        THEN [ret |-> NoValue, files |-> removed]
        ELSE [ret |-> DeezerFeatures, files |-> removed]

\* extract_features of spotify_dataset_builder.py
SpotifyExtractFeatures(track, tmp_path, files) ==
    LET created == files \cup {tmp_path}        \* NamedTemporaryFile(delete=False)
        removed == created \ {tmp_path}         \* os.unlink(tmp_path)
    IN  IF track.kind = "net_fail"              \* outer except: no unlink
        THEN [ret |-> NoValue, files |-> created]
        ELSE IF track.kind = "analysis_fail"    \* inner except: unlink, return None
        THEN [ret |-> NoValue, files |-> removed]
        ELSE [ret |-> SpotifyFeatures, files |-> removed]

\* mutation of AppendIfFeatures: the row is appended whatever was returned
AppendAlways(dataset, features, labels) ==
    Append(dataset, [features |-> features] @@ labels)

\* if features: features.update({...}); dataset.append(features)
AppendIfFeatures(dataset, features, labels) ==
    IF features # NoValue
    THEN Append(dataset, [features |-> features] @@ labels)
    ELSE dataset

NoFile == [written |-> FALSE, rows |-> <<>>]

\* if dataset: df.to_csv(...)  -- whether a file is written, and its rows
WrittenFile(dataset) ==
    IF dataset # <<>> THEN [written |-> TRUE, rows |-> dataset] ELSE NoFile

InitBatch ==
    /\ b_variant \in {"deezer", "spotify"}
    /\ b_pc = "start"
    /\ b_lists = 1
    /\ b_tracks = <<>>
    /\ b_i = 1
    /\ b_catalog = <<>>
    /\ b_dataset = <<>>
    /\ b_tmpfiles = {}
    /\ b_tmp_path = 0
    /\ b_features = NoValue
    /\ b_analyzed = <<>>
    /\ b_file = NoFile
    /\ ClassifierIdle
    /\ HandlerIdle

\* results = search_deezer(query, limit): [] unless the status is 200
DeezerSearch ==
    /\ b_variant = "deezer" /\ b_pc = "start"
    /\ \E status \in {200, 500} :
       \E data \in TrackLists(DeezerKinds, 1) :
          LET results == IF status # 200 THEN <<>> ELSE data
          IN  /\ b_tracks' = results
              /\ b_catalog' = results
    /\ b_i' = 1
    /\ b_pc' = "loop"
    /\ UNCHANGED <<b_variant, b_lists, b_dataset, b_tmpfiles, b_tmp_path, b_features,
                   b_analyzed, b_file, c_vars, h_vars>>

\* if not preview_url: continue
DeezerSkip ==
    /\ b_variant = "deezer" /\ b_pc = "loop"
    /\ b_i <= Len(b_tracks)
    /\ b_tracks[b_i].kind = "no_preview"
    /\ b_i' = b_i + 1
    /\ UNCHANGED <<b_variant, b_pc, b_lists, b_tracks, b_catalog, b_dataset, b_tmpfiles,
                   b_tmp_path, b_features, b_analyzed, b_file, c_vars, h_vars>>

\* features = extract_features(preview_url); if features: ... append
DeezerAnalyze ==
    /\ b_variant = "deezer" /\ b_pc = "loop"
    /\ b_i <= Len(b_tracks)
    /\ b_tracks[b_i].kind # "no_preview"
    /\ LET track == b_tracks[b_i]
           path  == Len(b_analyzed) + 1
           call  == DeezerExtractFeatures(track, path, b_tmpfiles)
       IN  /\ b_analyzed' = Append(b_analyzed, track.id)
           /\ b_tmp_path' = path
           /\ b_tmpfiles' = call.files
           /\ b_features' = call.ret
           /\ b_dataset' = AppendIfFeatures(b_dataset, call.ret,
                                 [track_name |-> track.id, genre |-> DeezerQuery])
    /\ b_i' = b_i + 1
    /\ UNCHANGED <<b_variant, b_pc, b_lists, b_tracks, b_catalog, b_file, c_vars, h_vars>>

\* after the loop: if dataset: write the CSV, else report that nothing was collected
DeezerFinish ==
    /\ b_variant = "deezer" /\ b_pc = "loop"
    /\ b_i > Len(b_tracks)
    /\ b_file' = WrittenFile(b_dataset)
    /\ b_pc' = "done"
    /\ UNCHANGED <<b_variant, b_lists, b_tracks, b_i, b_catalog, b_dataset, b_tmpfiles,
                   b_tmp_path, b_features, b_analyzed, c_vars, h_vars>>

\* the pages of a playlist joined: tracks = results['items'];
\* while results['next']: tracks.extend(...)
RECURSIVE JoinPages(_)
JoinPages(pages) == IF pages = <<>> THEN <<>> ELSE Head(pages) \o JoinPages(Tail(pages))

\* for genre, playlist_id in ...: load the playlist page by page; on an
\* exception at any page, continue with the next playlist
SpotifyLoadPlaylist ==
    /\ b_variant = "spotify" /\ b_pc \in {"start", "playlist"}
    /\ b_lists <= Len(AFRICAN_PLAYLISTS)
    /\ \/ \E data \in TrackLists(SpotifyKinds, b_lists) :
          \E cut \in 0..Len(data) :
             LET pages  == IF cut = Len(data) THEN <<data>>
                           ELSE <<SubSeq(data, 1, cut), SubSeq(data, cut + 1, Len(data))>>
                 tracks == JoinPages(pages)
             IN  /\ b_tracks' = tracks
                 /\ b_catalog' = b_catalog \o tracks
                 /\ b_i' = 1
                 /\ b_pc' = "loop"
                 /\ UNCHANGED b_lists
       \/ /\ b_lists' = b_lists + 1
          /\ b_pc' = "playlist"
          /\ UNCHANGED <<b_tracks, b_catalog, b_i>>
    /\ UNCHANGED <<b_variant, b_dataset, b_tmpfiles, b_tmp_path, b_features, b_analyzed,
                   b_file, c_vars, h_vars>>

\* if item.get('track') is None: continue; if not preview_url: continue
SpotifySkip ==
    /\ b_variant = "spotify" /\ b_pc = "loop"
    /\ b_i <= Len(b_tracks)
    /\ b_tracks[b_i].kind \in {"no_track", "no_preview"}
    /\ b_i' = b_i + 1
    /\ UNCHANGED <<b_variant, b_pc, b_lists, b_tracks, b_catalog, b_dataset, b_tmpfiles,
                   b_tmp_path, b_features, b_analyzed, b_file, c_vars, h_vars>>

\* features = extract_features(preview_url); if features: ... append
SpotifyAnalyze ==
    /\ b_variant = "spotify" /\ b_pc = "loop"
    /\ b_i <= Len(b_tracks)
    /\ b_tracks[b_i].kind \notin {"no_track", "no_preview"}
    /\ LET track == b_tracks[b_i]
           path  == Len(b_analyzed) + 1
           call  == SpotifyExtractFeatures(track, path, b_tmpfiles)
       IN  /\ b_analyzed' = Append(b_analyzed, track.id)
           /\ b_tmp_path' = path
           /\ b_tmpfiles' = call.files
           /\ b_features' = call.ret
           /\ b_dataset' = AppendIfFeatures(b_dataset, call.ret,
                                 [track_name |-> track.id,
                                  genre |-> AFRICAN_PLAYLISTS[b_lists]])
    /\ b_i' = b_i + 1
    /\ UNCHANGED <<b_variant, b_pc, b_lists, b_tracks, b_catalog, b_file, c_vars, h_vars>>

\* the inner for loop is exhausted: on to the next playlist
SpotifyNextPlaylist ==
    /\ b_variant = "spotify" /\ b_pc = "loop"
    /\ b_i > Len(b_tracks)
    /\ b_lists' = b_lists + 1
    /\ b_pc' = "playlist"
    /\ UNCHANGED <<b_variant, b_tracks, b_i, b_catalog, b_dataset, b_tmpfiles, b_tmp_path,
                   b_features, b_analyzed, b_file, c_vars, h_vars>>

\* after the outer loop: if dataset: write the CSV
SpotifyFinish ==
    /\ b_variant = "spotify" /\ b_pc = "playlist"
    /\ b_lists > Len(AFRICAN_PLAYLISTS)
    /\ b_file' = WrittenFile(b_dataset)
    /\ b_pc' = "done"
    /\ UNCHANGED <<b_variant, b_lists, b_tracks, b_i, b_catalog, b_dataset, b_tmpfiles,
                   b_tmp_path, b_features, b_analyzed, c_vars, h_vars>>

NextBatch ==
    \/ DeezerSearch
    \/ DeezerSkip
    \/ DeezerAnalyze
    \/ DeezerFinish
    \/ SpotifyLoadPlaylist
    \/ SpotifySkip
    \/ SpotifyAnalyze
    \/ SpotifyNextPlaylist
    \/ SpotifyFinish

SpecBatch == InitBatch /\ [][NextBatch]_vars

(***************************************************************************)
(* Properties of the classifier                                            *)
(***************************************************************************)
GenreOrder == <<"Afrobeats", "R&B", "Hip-Hop", "Electronic/Pop", "Dancehall/Pop">>

\* score(a) <= score(b) as fractions passed/total
ScoreLeq(a, b) == a.passed * b.total <= b.passed * a.total

\* the positions of the rule table whose score is maximal
MaximalPositions(s) == {i \in 1..Len(s) : \A j \in 1..Len(s) : ScoreLeq(s[j], s[i])}

FirstMaximal(s) == CHOOSE i \in MaximalPositions(s) : \A j \in MaximalPositions(s) : i <= j

\* C1: every genre of the rule table gets the score passed/total over its own
\* predicates, the selected genre has the maximal score, and among several
\* genres with the maximal score the one declared first is selected.
C1_FirstDeclaredMaximalGenre ==
    c_pc = "returned" =>
        LET s == Scores(c_features)
        IN  /\ [i \in 1..Len(s) |-> s[i].genre] = GenreOrder
            /\ \A i \in 1..Len(s) : s[i].passed \in 0..s[i].total /\ s[i].total > 0
            /\ c_best = s[FirstMaximal(s)]
            /\ c_prediction.genre \in {"Unknown", s[FirstMaximal(s)].genre}

C1_Witness ==
    /\ c_pc = "returned"
    /\ Cardinality(MaximalPositions(Scores(c_features))) >= 2
    /\ c_best.passed > 0
    /\ c_prediction.genre = c_best.genre

\* C2: a winning score strictly below 0.5 yields exactly ("Unknown", 0.0);
\* a winning score of 0.5 or more yields the winning genre's label.
C2_UnknownBelowHalf ==
    c_pc = "returned" =>
        LET s == Scores(c_features)
            w == s[FirstMaximal(s)]
        IN  IF 2 * w.passed < w.total
            THEN c_prediction = [genre |-> "Unknown", confidence |-> Zero]
            ELSE c_prediction.genre = w.genre /\ c_prediction.genre # "Unknown"

C2_Witness ==
    /\ c_pc = "returned"
    /\ c_best.passed > 0
    /\ 5 * c_best.passed <= 2 * c_best.total
    /\ c_prediction = [genre |-> "Unknown", confidence |-> Zero]

\* the floats of the decimals 0.00, 0.01, ..., 1.00
Hundredths == [p \in 0..100 |-> Q(p, 100)]

\* C3: the confidence lies in [0, 1] and is a multiple of 0.01; with a genre
\* label it is within half a hundredth of passed/total, with "Unknown" it is 0.
C3_ConfidenceTwoDecimals ==
    c_pc = "returned" =>
        LET c == c_prediction.confidence
        IN  /\ c_prediction.genre = "Unknown" => c = Zero
            /\ c_prediction.genre # "Unknown" =>
                  \E p \in 0..100 :
                      /\ c = Hundredths[p]
                      /\ 2 * Abs(p * c_best.total - 100 * c_best.passed) <= c_best.total

C3_Witness ==
    /\ c_pc = "returned"
    /\ c_best.passed = 2 /\ c_best.total = 3
    /\ c_prediction.confidence = Q(67, 100)

Vector4 == [tempo |-> R(110), mfcc_1 |-> R(130), zero_crossing_rate |-> Q(3, 100),
            spectral_centroid |-> R(2200), loudness_db |-> R(-4), mfcc_0 |-> R(-150)]

\* C4: the vector {tempo=110, mfcc_1=130, zero_crossing_rate=0.03,
\* spectral_centroid=2200, loudness_db=-4, mfcc_0=-150} is classified as
\* "Afrobeats" with confidence 1.0.
C4_AfrobeatsScenario ==
    (c_pc = "returned" /\ c_features = Vector4) =>
        /\ c_prediction = [genre |-> "Afrobeats", confidence |-> R(1)]
        /\ c_best = [genre |-> "Afrobeats", passed |-> 4, total |-> 4]

\* on this vector Hip-Hop's three predicates are all true as well
C4_Witness ==
    /\ c_pc = "returned"
    /\ c_features = Vector4
    /\ Scores(c_features)[3] = [genre |-> "Hip-Hop", passed |-> 3, total |-> 3]
    /\ c_prediction.genre = "Afrobeats"

Vector5 == [tempo |-> R(70), mfcc_0 |-> R(-250), spectral_centroid |-> R(1500),
            loudness_db |-> R(-10)]

\* C5: the vector {tempo=70, mfcc_0=-250, spectral_centroid=1500,
\* loudness_db=-10}, without mfcc_1 and zero_crossing_rate, is classified as
\* "R&B" with confidence 1.0, and no other genre has all its predicates true.
C5_RnBScenario ==
    (c_pc = "returned" /\ c_features = Vector5) =>
        /\ c_prediction = [genre |-> "R&B", confidence |-> R(1)]
        /\ \A i \in 1..5 : Scores(c_features)[i].genre # "R&B" =>
              Scores(c_features)[i].passed < Scores(c_features)[i].total

C5_Witness ==
    /\ c_pc = "returned"
    /\ c_features = Vector5
    /\ "mfcc_1" \notin DOMAIN c_features
    /\ "zero_crossing_rate" \notin DOMAIN c_features
    /\ c_prediction.genre = "R&B"

(***************************************************************************)
(* Properties of analyze_audio                                             *)
(***************************************************************************)
StageOrder == <<"download", "decode", "extract", "classify">>

\* a success status, as the specification reads it: 2xx
Success(status) == 200 <= status /\ status < 300

\* the fetch of audioUrl returned a non-success status or failed at the
\* network level
FetchFailed(reply) == reply.raised \/ (reply # NoResponse /\ ~Success(reply.status))

\* C6 as claimed: the stages are invoked in the order download, decode,
\* extraction, classification, each only after every earlier one succeeded;
\* when the fetch returns a non-success status or fails at the network
\* level, the request fails with the download error and no later stage is
\* invoked; after a failed decode or extraction the classifier is not
\* invoked and no result is returned.
C6_StagesInOrder ==
    /\ Len(h_calls) <= Len(StageOrder)
    /\ \A i \in 1..Len(h_calls) :
          /\ h_calls[i].stage = StageOrder[i]
          /\ i < Len(h_calls) => h_calls[i].ok
    /\ FetchFailed(h_response) => (h_calls = <<Call("download", FALSE)>>
                                    /\ h_status = 400)
    /\ (\E i \in 1..Len(h_calls) : ~h_calls[i].ok) =>
          /\ h_status \in {400, 500}
          /\ h_result = NoValue
          /\ \A i \in 1..Len(h_calls) : h_calls[i].stage # "classify"
    /\ h_status = 200 => \A i \in 1..Len(h_calls) : h_calls[i].ok

\* what does hold: the order of the stages, and the short cut whenever the
\* fetch raises or the status is 4xx or 5xx; a final 3xx response is
\* handed to the decoder
StagesInOrderWhenRaised ==
    /\ Len(h_calls) <= Len(StageOrder)
    /\ \A i \in 1..Len(h_calls) :
          /\ h_calls[i].stage = StageOrder[i]
          /\ i < Len(h_calls) => h_calls[i].ok
    /\ DownloadRaises(h_response) => (h_calls = <<Call("download", FALSE)>>
                                       /\ h_status = 400)
    /\ (\E i \in 1..Len(h_calls) : ~h_calls[i].ok) =>
          /\ h_status \in {400, 500}
          /\ h_result = NoValue
          /\ \A i \in 1..Len(h_calls) : h_calls[i].stage # "classify"
    /\ h_status = 200 => \A i \in 1..Len(h_calls) : h_calls[i].ok

\* the state in which a response of status 300 has been decoded, analysed
\* and answered with 200
RedirectAnalysed ==
    h_status = 200 /\ h_response.status = 300 /\ h_result # NoValue

NonMfccKeys == {"tempo", "key", "duration", "loudness_db", "percussive_strength",
                "polyrhythm_score", "offbeat_emphasis", "harmonic_ratio",
                "spectral_centroid", "zero_crossing_rate"}

\* 0.000050001
HalfUnit4 == Q(50001, 1000000000)

\* |d| of a float
AbsF(d) == IF d.sg < 0 THEN Neg(d) ELSE d

\* x is the float of a decimal of at most 4 places, within 0.00005 of v
RoundedTo4(x, v) ==
    /\ x.cls = "finite"
    /\ x = DecimalFloat(x.sg, Decimal(x, 4), 4)
    /\ Leq(AbsF(Sub(x, v)), HalfUnit4)

\* C7: a successful response has an mfccs field exactly when analyze_mfcc is
\* true, and the field then holds exactly the mfcc_<i> entries of the
\* FeatureVector, each rounded to 4 decimals.
C7_MfccsOnlyOnRequest ==
    h_status = 200 =>
        /\ "mfccs" \in DOMAIN h_result <=> h_req.analyze_mfcc = "True"
        /\ "mfccs" \in DOMAIN h_result =>
              /\ DOMAIN h_result.mfccs = DOMAIN h_features \ NonMfccKeys
              /\ \A k \in DOMAIN h_result.mfccs :
                    RoundedTo4(h_result.mfccs[k], h_features[k])

C7_Witness ==
    /\ h_status = 200
    /\ h_req.analyze_mfcc = "False"
    /\ Cardinality(DOMAIN h_features \ NonMfccKeys) = 5
    /\ "mfccs" \notin DOMAIN h_result
    /\ "tempo" \in DOMAIN h_result

\* C9 as claimed: no response is returned for a FeatureVector holding a
\* non-finite value.
C9_NoNonFiniteFeature ==
    h_status = 200 =>
        \A k \in DOMAIN h_features \ {"key"} : h_features[k].cls = "finite"

\* the all-zero waveform itself is handled by the guard
SilentWaveformFinite ==
    (h_features # NoValue /\ Silent(h_wave.y)) =>
        /\ h_features["harmonic_ratio"] = Zero
        /\ h_features["loudness_db"] = R(-100)

(***************************************************************************)
(* Properties of the batch builders                                        *)
(***************************************************************************)
\* C8 as claimed: once extract_features has returned, the temporary file it
\* created no longer exists.
C8_TempFileReleased ==
    b_tmp_path \notin b_tmpfiles

\* in analyze_audio the with block does release the file on every exit
HandlerTempReleased ==
    h_pc \in {"raised", "returned"} => ~h_tmp

Ids(tracks) == [i \in 1..Len(tracks) |-> tracks[i].id]

HasPreview(t) == t.kind \notin {"no_track", "no_preview"}

IsOk(t) == t.kind = "ok"

\* C10: a track without preview URL is never analyzed; every other track of
\* every loaded list is analyzed, whatever happened to the tracks before it;
\* the file is written exactly when some track was analyzed successfully and
\* then holds one row per such track, in order.
C10_BatchSkipsAndContinues ==
    /\ \A i \in 1..Len(b_catalog) :
          ~HasPreview(b_catalog[i]) => \A j \in 1..Len(b_analyzed) :
                                          b_analyzed[j] # b_catalog[i].id
    /\ b_pc = "done" =>
          /\ b_analyzed = Ids(SelectSeq(b_catalog, HasPreview))
          /\ [i \in 1..Len(b_dataset) |-> b_dataset[i].track_name]
                = Ids(SelectSeq(b_catalog, IsOk))
          /\ \A i \in 1..Len(b_dataset) : b_dataset[i].features # NoValue
          /\ b_file.written <=> (\E i \in 1..Len(b_catalog) : IsOk(b_catalog[i]))
          /\ b_file.written => b_file.rows = b_dataset

C10_Witness ==
    /\ b_pc = "done"
    /\ \E i \in 1..Len(b_catalog) : b_catalog[i].kind = "no_preview"
    /\ \E i, j \in 1..Len(b_catalog) :
          /\ i < j
          /\ b_catalog[i].kind \in {"net_fail", "decode_fail", "analysis_fail"}
          /\ b_catalog[j].kind = "ok"
    /\ b_file.written
    /\ Len(b_file.rows) = 1

====
